---- MODULE Spec2Model ----
(***************************************************************************)
(* A model of the PDF invoice automator.  The repository holds two         *)
(* variants of the backend: src/main.py ("root": threaded FastAPI          *)
(* handlers, Google Sheets sink, AppState with its own lock) and           *)
(* src/backend/main.py ("backend": async handlers on one event loop, a     *)
(* global state dict guarded by state_lock).  The variable `variant` says  *)
(* which program a behaviour runs; every action belongs to one of them.    *)
(***************************************************************************)
EXTENDS Integers, Sequences, FiniteSets, TLC

(* ------------------------------ bounds --------------------------------- *)
\* request-handling threads of the control surface that may run at once
NumReq == 2
\* requests issued in one behaviour
MaxReqs == 2
\* file-system events queued to observers in one behaviour
MaxEvents == 2
\* clock ticks modelled while a stop request waits in observer.join
MaxWait == 4
\* add_log calls in the log-buffer specification SpecLog
MaxLogCalls == 103
\* rows a destination holds in the sink specification SpecSink
MaxRows == 4
\* pages of a document in the extraction specification SpecExtract
MaxPages == 3
MaxFrags == 3

(* -------------------------- program constants -------------------------- *)
\* src/main.py:55  if len(self.logs) > 100
LogCap == 100
\* src/backend/main.py:254  state["observer"].join(timeout=3.0)
JoinTimeout == 3

VARIABLES
    variant,         \* "root" (src/main.py) or "backend" (src/backend/main.py)
    is_watching,     \* state.is_watching / state["is_watching"]
    stats,           \* state.stats: [files_processed, errors]
    logs,            \* state.logs
    log_id_counter,  \* backend: log_id_counter (the root program has none)
    observer,        \* state.observer: 0 (None) or the id of an Observer
    sheet_url,       \* state.sheet_url: "None", "" or a URL
    folder_path,     \* backend: state["folder_path"]
    lock,            \* holder of state.lock / state_lock: "free" or a thread
    obs,             \* the Observer objects created so far, by id
    h,               \* the handler (dispatch) thread of each Observer
    req,             \* the request threads of the control surface
    nreqs,           \* requests issued so far (SpecLog: add_log calls made)
    nevents,         \* file-system events queued to observers so far
    sheet            \* rows of the destination spreadsheet's first worksheet

vars == <<variant, is_watching, stats, logs, log_id_counter, observer,
          sheet_url, folder_path, lock, obs, h, req, nreqs, nevents, sheet>>

(* ------------------------------ inputs --------------------------------- *)
Folders == {"", "missing", "noperm", "good"}
Urls == {"", "sheetA"}
\* os.path.isdir
IsDir(f) == f \in {"noperm", "good"}
\* os.access(folder_path, os.R_OK | os.W_OK)
Access(f) == f = "good"

ReqIds == 1..NumReq

(* ----------------------------- log buffer ------------------------------ *)
\* an entry of the log: its level, and for an ERROR entry which message it is
\* and the file the message names (0: none).  The texts of INFO and SUCCESS
\* messages and the timestamp are not modelled.
Entry(level, msg, file) ==
    [level |-> level,
     msg |-> IF level = "ERROR" THEN msg ELSE "",
     file |-> IF level = "ERROR" THEN file ELSE 0]

\* AppState.add_log: append, then drop the oldest entry beyond LogCap
RootAddLog(lg, e) ==
    LET a == Append(lg, e) IN IF Len(a) > LogCap THEN Tail(a) ELSE a

\* backend add_log: append only
BackendAddLog(lg, e) == Append(lg, e)

\* a call of AppState.add_log: the whole critical section of src/main.py:50-56.
\* Every critical section of src/main.py is straight-line code that touches
\* only lock-protected data, so each is one step taken when the lock is free.
RAddLog(level, msg, file) ==
    /\ lock = "free"
    /\ logs' = RootAddLog(logs, Entry(level, msg, file))
    /\ log_id_counter' = log_id_counter

(* --------------------------- request threads --------------------------- *)
ReqIdle == [pc |-> "idle", op |-> "none", folder |-> "", url |-> "",
            resp |-> "none", target |-> 0, waited |-> 0,
            snap |-> <<>>,
            seen |-> [w |-> FALSE, s |-> [files_processed |-> 0, errors |-> 0]]]

CanIssue(r) == req[r].pc = "idle" /\ nreqs < MaxReqs

Begin(r, op, f, u) == [ReqIdle EXCEPT !.op = op, !.folder = f, !.url = u]

\* the request has been answered: the thread keeps nothing but the answer
Respond(q, code) ==
    [ReqIdle EXCEPT !.op = q.op, !.folder = q.folder, !.resp = code]

(* ------------------------------ observers ------------------------------ *)
\* doc, seen, ocr and out follow the extraction of the open document: its
\* pages, the pages the loop has visited, the page numbers OCR was called
\* for, and the page texts collected (text_content / aggregated)
HIdle == [pc |-> "idle", file |-> 0, pages |-> <<>>, text |-> FALSE,
          dest |-> "None", header |-> <<>>, errlogs |-> 0, wrote |-> FALSE,
          outcome |-> "none", cause |-> "none",
          doc |-> <<>>, seen |-> <<>>, ocr |-> <<>>, out |-> <<>>,
          input |-> <<>>, rec |-> [status |-> "none"], stages |-> <<>>,
          named |-> FALSE]

\* taken: the *.pdf events handed to the handler so far (the pipeline runs)
NewObserver == [status |-> "created", queue |-> <<>>, taken |-> 0]

ObsIds == 1..Len(obs)

\* Observer.stop(): the stop event is set and the emitters are closed; the
\* dispatch thread ends once the handler call in progress has returned
StopObserver(o) ==
    CASE obs[o].status = "alive" ->
            [obs EXCEPT ![o].status = IF h[o].pc = "idle" THEN "dead" ELSE "stopping",
                        ![o].queue = <<>>]
      [] obs[o].status = "created" -> [obs EXCEPT ![o].status = "created_stopped"]
      [] OTHER -> obs

\* threading.Thread.join raises RuntimeError on a thread never started
NeverStarted(o) == obs[o].status \in {"created", "created_stopped", "failed"}

(* ----------------------- root: POST /start-watching -------------------- *)
\* start_watching storing the destination before it validates the folder
RStartCheckStoresUrl(r, f, u) ==
    /\ variant = "root" /\ CanIssue(r)
    /\ nreqs' = nreqs + 1
    /\ sheet_url' = IF is_watching THEN sheet_url ELSE u
    /\ req' = [req EXCEPT ![r] =
          IF is_watching THEN Respond(Begin(r, "start", f, u), "already_watching")
          ELSE IF ~IsDir(f) THEN Respond(Begin(r, "start", f, u), "dir_not_found")
          ELSE [Begin(r, "start", f, u) EXCEPT !.pc = "log_starting"]]
    /\ UNCHANGED <<variant, is_watching, stats, logs, log_id_counter, observer,
                   folder_path, lock, obs, h, nevents, sheet>>

\* src/main.py:182-185
RStartCheck(r, f, u) ==
    /\ variant = "root" /\ CanIssue(r)
    /\ nreqs' = nreqs + 1
    /\ req' = [req EXCEPT ![r] =
          IF is_watching THEN Respond(Begin(r, "start", f, u), "already_watching")
          ELSE IF ~IsDir(f) THEN Respond(Begin(r, "start", f, u), "dir_not_found")
          ELSE [Begin(r, "start", f, u) EXCEPT !.pc = "set_url"]]
    /\ UNCHANGED <<variant, is_watching, stats, logs, log_id_counter, observer,
                   sheet_url, folder_path, lock, obs, h, nevents, sheet>>

\* src/main.py:187
RStartSetUrl(r) ==
    /\ variant = "root" /\ req[r].pc = "set_url"
    /\ sheet_url' = req[r].url
    /\ req' = [req EXCEPT ![r].pc = "log_starting"]
    /\ UNCHANGED <<variant, is_watching, stats, logs, log_id_counter, observer,
                   folder_path, lock, obs, h, nreqs, nevents, sheet>>

\* src/main.py:188
RStartLog(r) ==
    /\ variant = "root" /\ req[r].pc = "log_starting"
    /\ RAddLog("INFO", "starting", 0)
    /\ req' = [req EXCEPT ![r].pc = "new_observer"]
    /\ UNCHANGED <<variant, is_watching, stats, observer, sheet_url,
                   folder_path, lock, obs, h, nreqs, nevents, sheet>>

\* src/main.py:190-191
RStartNewObserver(r) ==
    /\ variant = "root" /\ req[r].pc = "new_observer"
    /\ obs' = Append(obs, NewObserver)
    /\ h' = Append(h, HIdle)
    /\ observer' = Len(obs) + 1
    /\ req' = [req EXCEPT ![r].pc = "obs_start"]
    /\ UNCHANGED <<variant, is_watching, stats, logs, log_id_counter,
                   sheet_url, folder_path, lock, nreqs, nevents, sheet>>

\* src/main.py:193-194: schedule and start whatever state.observer is now
RStartObserver(r) ==
    /\ variant = "root" /\ req[r].pc = "obs_start"
    /\ LET o == observer IN
       \/ /\ obs[o].status = "created"
          /\ \E ok \in BOOLEAN :
               /\ obs' = [obs EXCEPT ![o].status = IF ok THEN "alive" ELSE "failed"]
               /\ req' = [req EXCEPT ![r].pc =
                              IF ok THEN "set_watching" ELSE "log_start_failed"]
       \/ /\ obs[o].status = "created_stopped"
          /\ obs' = [obs EXCEPT ![o].status = "dead"]
          /\ req' = [req EXCEPT ![r].pc = "set_watching"]
       \/ /\ obs[o].status \notin {"created", "created_stopped"}
          /\ obs' = obs
          /\ req' = [req EXCEPT ![r].pc = "log_start_failed"]
    /\ UNCHANGED <<variant, is_watching, stats, logs, log_id_counter, observer,
                   sheet_url, folder_path, lock, h, nreqs, nevents, sheet>>

\* src/main.py:195-196
RStartSetWatching(r) ==
    /\ variant = "root" /\ req[r].pc = "set_watching"
    /\ is_watching' = TRUE
    /\ req' = [req EXCEPT ![r] = Respond(@, "started")]
    /\ UNCHANGED <<variant, stats, logs, log_id_counter, observer, sheet_url,
                   folder_path, lock, obs, h, nreqs, nevents, sheet>>

\* src/main.py:197-199
RStartLogFailed(r) ==
    /\ variant = "root" /\ req[r].pc = "log_start_failed"
    /\ RAddLog("ERROR", "start_failed", 0)
    /\ req' = [req EXCEPT ![r] = Respond(@, "start_failed")]
    /\ UNCHANGED <<variant, is_watching, stats, observer, sheet_url,
                   folder_path, lock, obs, h, nreqs, nevents, sheet>>

(* ----------------------- root: POST /stop-watching --------------------- *)
\* stop_watching logging the refusal when nothing is being watched
RStopCheckLogsRefusal(r) ==
    /\ variant = "root" /\ CanIssue(r)
    /\ nreqs' = nreqs + 1
    /\ IF ~is_watching \/ observer = 0
       THEN /\ RAddLog("ERROR", "not_running", 0)
            /\ req' = [req EXCEPT ![r] =
                         Respond(Begin(r, "stop", "", ""), "not_watching")]
       ELSE /\ req' = [req EXCEPT ![r] =
                         [Begin(r, "stop", "", "") EXCEPT !.pc = "obs_stop"]]
            /\ UNCHANGED <<logs, log_id_counter>>
    /\ UNCHANGED <<variant, is_watching, stats, observer,
                   sheet_url, folder_path, lock, obs, h, nevents, sheet>>

\* src/main.py:203-204
RStopCheck(r) ==
    /\ variant = "root" /\ CanIssue(r)
    /\ nreqs' = nreqs + 1
    /\ req' = [req EXCEPT ![r] =
          IF ~is_watching \/ observer = 0
          THEN Respond(Begin(r, "stop", "", ""), "not_watching")
          ELSE [Begin(r, "stop", "", "") EXCEPT !.pc = "obs_stop"]]
    /\ UNCHANGED <<variant, is_watching, stats, logs, log_id_counter, observer,
                   sheet_url, folder_path, lock, obs, h, nevents, sheet>>

\* src/main.py:205
RStopObserver(r) ==
    /\ variant = "root" /\ req[r].pc = "obs_stop"
    /\ obs' = StopObserver(observer)
    /\ req' = [req EXCEPT ![r].pc = "obs_join"]
    /\ UNCHANGED <<variant, is_watching, stats, logs, log_id_counter, observer,
                   sheet_url, folder_path, lock, h, nreqs, nevents, sheet>>

\* src/main.py:206: join() is called on whatever state.observer is now
RStopJoinCall(r) ==
    /\ variant = "root" /\ req[r].pc = "obs_join"
    /\ req' = [req EXCEPT ![r] =
          IF NeverStarted(observer) THEN Respond(@, "internal_error")
          ELSE [@ EXCEPT !.pc = "joining", !.target = observer]]
    /\ UNCHANGED <<variant, is_watching, stats, logs, log_id_counter, observer,
                   sheet_url, folder_path, lock, obs, h, nreqs, nevents, sheet>>

\* src/main.py:206: join() has no timeout; time passes while it waits
RStopJoinTick(r) ==
    /\ variant = "root" /\ req[r].pc = "joining"
    /\ obs[req[r].target].status # "dead"
    /\ req[r].waited < MaxWait
    /\ req' = [req EXCEPT ![r].waited = @ + 1]
    /\ UNCHANGED <<variant, is_watching, stats, logs, log_id_counter, observer,
                   sheet_url, folder_path, lock, obs, h, nreqs, nevents, sheet>>

\* src/main.py:206-207: join() returns when the observer thread has ended
RStopJoined(r) ==
    /\ variant = "root" /\ req[r].pc = "joining"
    /\ obs[req[r].target].status = "dead"
    /\ is_watching' = FALSE
    /\ req' = [req EXCEPT ![r].pc = "log_stopped"]
    /\ UNCHANGED <<variant, stats, logs, log_id_counter, observer, sheet_url,
                   folder_path, lock, obs, h, nreqs, nevents, sheet>>

\* src/main.py:208-209
RStopLog(r) ==
    /\ variant = "root" /\ req[r].pc = "log_stopped"
    /\ RAddLog("INFO", "stopped", 0)
    /\ req' = [req EXCEPT ![r] = Respond(@, "stopped")]
    /\ UNCHANGED <<variant, is_watching, stats, observer, sheet_url,
                   folder_path, lock, obs, h, nreqs, nevents, sheet>>

(* --------------------------- root: GET /status ------------------------- *)
\* src/main.py:175-177: copy and clear the log buffer under the lock
RStatusCopy(r) ==
    /\ variant = "root" /\ CanIssue(r) /\ lock = "free"
    /\ nreqs' = nreqs + 1
    /\ req' = [req EXCEPT ![r] =
          [Begin(r, "status", "", "") EXCEPT
              !.pc = "status_read", !.snap = logs,
              !.seen = [w |-> is_watching, s |-> stats]]]
    /\ logs' = <<>>
    /\ UNCHANGED <<variant, is_watching, stats, log_id_counter, observer,
                   sheet_url, folder_path, lock, obs, h, nevents, sheet>>

\* src/main.py:178: is_watching and stats are read after the lock is released
RStatusReturn(r) ==
    /\ variant = "root" /\ req[r].pc = "status_read"
    /\ req' = [req EXCEPT ![r] =
          Respond(@, "status")]
    /\ UNCHANGED <<variant, is_watching, stats, logs, log_id_counter, observer,
                   sheet_url, folder_path, lock, obs, h, nreqs, nevents, sheet>>

(* ------------------------------- the sink ------------------------------ *)
\* the keys of the dict parse_invoice_text returns, in insertion order
RecordCols == <<"Vendor", "Invoice Date", "Total Amount", "Processed Time">>

RecordColSet == {RecordCols[i] : i \in 1..Len(RecordCols)}

\* a cell of the sheet: a column name (f = 0), the value of field v of the
\* record parsed from file f, or the missing-value marker of pandas
NameCell(c) == [v |-> c, f |-> 0]

NaN == [v |-> "NaN", f |-> 0]

\* the record handed to append_to_sheet for file f
Record(f) == [c \in RecordColSet |-> [v |-> c, f |-> f]]

\* sheet.row_values(1): the values of the first row, [] when there is none
RowValues1(sh) ==
    IF Len(sh) = 0 THEN <<>> ELSE [i \in 1..Len(sh[1]) |-> sh[1][i].v]

\* [df.columns.values.tolist()] + df.values.tolist() for df = DataFrame([data])
HeaderAndRow(data) ==
    << [i \in 1..Len(RecordCols) |-> NameCell(RecordCols[i])],
       [i \in 1..Len(RecordCols) |-> data[RecordCols[i]]] >>

ReindexRecordOrder(data, header) ==
    [i \in 1..Len(header) |->
        IF i <= Len(RecordCols) THEN data[RecordCols[i]] ELSE NaN]

\* df.reindex(columns=header).values.tolist()[0]
Reindex(data, header) ==
    [i \in 1..Len(header) |->
        IF header[i] \in DOMAIN data THEN data[header[i]] ELSE NaN]

\* sheet.update(values): the values are written from cell A1 on, over
\* whatever the covered cells held
SheetUpdate(sh, values) ==
    [i \in 1..(IF Len(sh) > Len(values) THEN Len(sh) ELSE Len(values)) |->
        IF i > Len(values) THEN sh[i]
        ELSE IF i > Len(sh) \/ Len(sh[i]) <= Len(values[i]) THEN values[i]
        ELSE values[i] \o SubSeq(sh[i], Len(values[i]) + 1, Len(sh[i]))]

\* sheet.append_rows([row]): one row after the last row of the table
AppendRows(sh, row) == Append(sh, row)

\* src/main.py:90-94: what the write does to the sheet, given the header read
SheetWrite(sh, header, data) ==
    IF header = <<>> THEN SheetUpdate(sh, HeaderAndRow(data))
    ELSE AppendRows(sh, Reindex(data, header))

\* src/backend/main.py:94: re.compile is given a pattern whose character set
\* is never closed ("[\d{1,3}..." has no "]"): it raises re.error, which
\* Parser.run logs and raises again
ParserRaises == TRUE

(* ---------------------------- file arrivals ---------------------------- *)
\* the file-system events of the watched directory that the model draws
Arrivals ==
    { [name |-> "a.pdf", ev |-> "created", dir |-> FALSE],
      [name |-> "B.PDF", ev |-> "created", dir |-> FALSE],
      [name |-> "c.txt", ev |-> "created", dir |-> FALSE],
      [name |-> "d.pdf", ev |-> "created", dir |-> TRUE],
      [name |-> "a.pdf", ev |-> "moved", dir |-> FALSE] }

\* src_path.lower().endswith(".pdf")
EndsWithPdfLower(name) == name \in {"a.pdf", "B.PDF", "d.pdf"}

\* documents: whether fitz.open succeeds, and what each page holds:
\* "native" (a text layer), "scan" (no text layer, OCR finds text),
\* "blank" (no text layer, OCR finds nothing), "space" (a text layer of
\* white space only, OCR finds nothing)
PageKinds == {"native", "space", "scan", "blank"}

\* page.get_text()
NativeText(page) ==
    CASE page = "native" -> "T" [] page = "space" -> " " [] OTHER -> ""

\* str.strip() on the texts of the model
Strip(t) == CASE t = " " -> "" [] t = " t " -> "t" [] OTHER -> t

\* pytesseract.image_to_string(img) when it returns
OcrText(page) == IF page = "scan" THEN " t " ELSE " "

\* "if text:" of a page tested without the strip() before it
NeedsOcrNoStrip(page) == NativeText(page) = ""

\* src/main.py:125-128 and src/backend/main.py:72-75: text = get_text().strip()
\* is empty, the else branch is taken
NeedsOcr(page) == Strip(NativeText(page)) = ""

Docs ==
    { [ok |-> FALSE, pages |-> <<>>],
      [ok |-> TRUE, pages |-> <<"native">>],
      [ok |-> TRUE, pages |-> <<"scan">>],
      [ok |-> TRUE, pages |-> <<"blank">>] }

Alive == {o \in ObsIds : obs[o].status = "alive"}

\* a file is created in (or moved into) the watched directory: the event
\* reaches the queue of every running observer
FileArrives(a) ==
    /\ Alive # {}
    /\ nevents + Cardinality(Alive) <= MaxEvents
    /\ nevents' = nevents + Cardinality(Alive)
    /\ obs' = [o \in ObsIds |->
                 IF o \in Alive
                 THEN [obs[o] EXCEPT !.queue = Append(@,
                     [name |-> a.name, ev |-> a.ev, dir |-> a.dir,
                      file |-> nevents + 1])]
                 ELSE obs[o]]
    /\ UNCHANGED <<variant, is_watching, stats, logs, log_id_counter, observer,
                   sheet_url, folder_path, lock, h, req, nreqs, sheet>>

\* the observer thread ends after the handler call in progress when stopped
AfterRun(o) ==
    [obs EXCEPT ![o].status = IF @ = "stopping" THEN "dead" ELSE @]

\* the pages from the first one that has no text layer
RECURSIVE SkipNative(_)
SkipNative(pages) ==
    IF pages = <<>> \/ NeedsOcr(Head(pages)) THEN pages
    ELSE SkipNative(Tail(pages))

(* ---------------------- root: PDFHandler.on_created -------------------- *)
\* the loop of src/main.py:124-135 from the current page up to the next page
\* that needs OCR (pages with a text layer take no step of their own: they
\* touch nothing shared); after the last page, doc.close() and the join
RPages(r, pages, text) ==
    LET rest == SkipNative(pages)
        k == Len(pages) - Len(rest)
    IN
    [r EXCEPT !.pages = rest,
              !.text = text \/ rest # pages,
              !.seen = @ \o SubSeq(pages, 1, k),
              !.out = @ \o [i \in 1..k |->
                              [page |-> Len(r.seen) + i,
                               text |-> Strip(NativeText(pages[i]))]],
              !.pc = IF rest = <<>> THEN "check_text" ELSE "page"]

\* src/main.py:144: the events on_created acts on
IsRootPdfEvent(e) == e.ev = "created" /\ ~e.dir /\ EndsWithPdfLower(e.name)

\* src/main.py:143-147 and 123: the dispatch thread takes the next event;
\* for a created file named *.pdf it sleeps, logs and opens the document
RDetected(o) ==
    /\ variant = "root" /\ obs[o].status = "alive"
    /\ h[o].pc = "idle" /\ obs[o].queue # <<>>
    /\ LET e == Head(obs[o].queue) IN
         /\ obs' = [obs EXCEPT ![o].queue = Tail(@),
                               ![o].taken = IF IsRootPdfEvent(e) THEN @ + 1 ELSE @]
         /\ IF IsRootPdfEvent(e)
            THEN /\ RAddLog("INFO", "detected", e.file)
                 /\ \E d \in Docs :
                      h' = [h EXCEPT ![o] =
                              IF d.ok
                              THEN RPages([HIdle EXCEPT !.file = e.file,
                                                        !.doc = d.pages,
                                                        !.stages = <<"Extractor">>],
                                          d.pages, FALSE)
                              ELSE [HIdle EXCEPT !.file = e.file,
                                                 !.stages = <<"Extractor">>,
                                                 !.pc = "log_extract_error"]]
            ELSE UNCHANGED <<h, logs, log_id_counter>>
    /\ UNCHANGED <<variant, is_watching, stats, observer, sheet_url,
                   folder_path, lock, req, nreqs, nevents, sheet>>

\* src/main.py:129-134: a page without a text layer
RPage(o) ==
    /\ variant = "root" /\ h[o].pc = "page"
    /\ RAddLog("INFO", "page_ocr", h[o].file)
    /\ \E ocr_ok \in BOOLEAN :
         LET page == Head(h[o].pages)
             n == Len(h[o].seen) + 1
             called == [h[o] EXCEPT !.seen = Append(@, page),
                                    !.ocr = Append(@, n)]
             ocr_text == Strip(OcrText(page))
         IN
         h' = [h EXCEPT ![o] =
                 IF ocr_ok
                 THEN RPages([called EXCEPT !.out =
                                 IF ocr_text # ""
                                 THEN Append(@, [page |-> n, text |-> ocr_text])
                                 ELSE @],
                             Tail(h[o].pages), h[o].text \/ ocr_text # "")
                 ELSE [called EXCEPT !.pc = "log_extract_error"]]
    /\ UNCHANGED <<variant, is_watching, stats, observer, sheet_url,
                   folder_path, lock, obs, req, nreqs, nevents, sheet>>

\* extract_text_with_ocr has returned or raised: its locals are gone
Extracted(r) ==
    [r EXCEPT !.pages = <<>>, !.doc = <<>>, !.seen = <<>>, !.ocr = <<>>,
              !.out = <<>>]

\* src/main.py:137-139
RExtractError(o) ==
    /\ variant = "root" /\ h[o].pc = "log_extract_error"
    /\ RAddLog("ERROR", "extract_error", h[o].file)
    /\ h' = [h EXCEPT ![o] = [Extracted(@) EXCEPT
                 !.pc = "count_error", !.errlogs = @ + 1, !.cause = "extract",
                 !.named = TRUE]]
    /\ UNCHANGED <<variant, is_watching, stats, observer, sheet_url,
                   folder_path, lock, obs, req, nreqs, nevents, sheet>>

\* src/main.py:150-154
RCheckText(o) ==
    /\ variant = "root" /\ h[o].pc = "check_text"
    /\ IF h[o].text
       THEN /\ RAddLog("INFO", "parsing", h[o].file)
            /\ h' = [h EXCEPT ![o] = [Extracted(@) EXCEPT !.pc = "parse"]]
       ELSE /\ RAddLog("ERROR", "no_text", h[o].file)
            /\ h' = [h EXCEPT ![o] = [Extracted(@) EXCEPT
                         !.pc = "count_error", !.errlogs = @ + 1,
                         !.cause = "empty_text", !.named = TRUE]]
    /\ UNCHANGED <<variant, is_watching, stats, observer, sheet_url,
                   folder_path, lock, obs, req, nreqs, nevents, sheet>>

\* src/main.py:155-156
RParse(o) ==
    /\ variant = "root" /\ h[o].pc = "parse"
    /\ RAddLog("SUCCESS", "parsed", h[o].file)
    /\ h' = [h EXCEPT ![o].pc = "get_client", ![o].stages = Append(@, "Parser")]
    /\ UNCHANGED <<variant, is_watching, stats, observer, sheet_url,
                   folder_path, lock, obs, req, nreqs, nevents, sheet>>

\* what the handler record keeps of a run that has ended
EndRun(r, outcome) ==
    [HIdle EXCEPT !.file = r.file, !.errlogs = r.errlogs, !.wrote = r.wrote,
                  !.cause = r.cause, !.stages = r.stages, !.named = r.named,
                  !.outcome = outcome]

\* src/main.py:62-81: get_gspread_client, then the guard of append_to_sheet;
\* without a client or a destination append_to_sheet returns None
RGetClient(o) ==
    /\ variant = "root" /\ h[o].pc = "get_client"
    /\ \E creds \in {"missing", "rejected", "ok"} :
         IF creds = "ok"
         THEN /\ h' = [h EXCEPT ![o].pc =
                          IF sheet_url \in {"None", ""} THEN "count_processed"
                          ELSE "log_opening",
                          ![o].stages = Append(@, "Appender")]
              /\ UNCHANGED <<logs, log_id_counter>>
         ELSE /\ RAddLog("ERROR", IF creds = "missing" THEN "creds_missing"
                                  ELSE "auth_failed", 0)
              /\ h' = [h EXCEPT ![o].pc = "count_processed",
                                ![o].errlogs = @ + 1,
                                ![o].stages = Append(@, "Appender"),
                                ![o].cause = "no_client"]
    /\ UNCHANGED <<variant, is_watching, stats, observer, sheet_url,
                   folder_path, lock, obs, req, nreqs, nevents, sheet>>

\* src/main.py:84
RLogOpening(o) ==
    /\ variant = "root" /\ h[o].pc = "log_opening"
    /\ RAddLog("INFO", "opening", 0)
    /\ h' = [h EXCEPT ![o].pc = "open_sheet"]
    /\ UNCHANGED <<variant, is_watching, stats, observer, sheet_url,
                   folder_path, lock, obs, req, nreqs, nevents, sheet>>

\* src/main.py:85-89: state.sheet_url is read again; the sheet is opened and
\* its first row read
ROpenSheet(o) ==
    /\ variant = "root" /\ h[o].pc = "open_sheet"
    /\ \E ok \in BOOLEAN :
         h' = IF ok /\ sheet_url \notin {"None", ""}
              THEN [h EXCEPT ![o].pc = "write", ![o].dest = sheet_url,
                             ![o].header = RowValues1(sheet)]
              ELSE [h EXCEPT ![o].pc = "log_write_failed",
                             ![o].cause = "sink_open"]
    /\ UNCHANGED <<variant, is_watching, stats, logs, log_id_counter, observer,
                   sheet_url, folder_path, lock, obs, req, nreqs, nevents, sheet>>

\* src/main.py:90-94
RWrite(o) ==
    /\ variant = "root" /\ h[o].pc = "write"
    /\ \E ok \in BOOLEAN :
         IF ok
         THEN /\ sheet' = SheetWrite(sheet, h[o].header, Record(h[o].file))
              /\ h' = [h EXCEPT ![o].pc = "log_written", ![o].wrote = TRUE]
         ELSE /\ sheet' = sheet
              /\ h' = [h EXCEPT ![o].pc = "log_write_failed",
                                ![o].cause = "sink_write"]
    /\ UNCHANGED <<variant, is_watching, stats, logs, log_id_counter, observer,
                   sheet_url, folder_path, lock, obs, req, nreqs, nevents>>

\* src/main.py:96
RLogWritten(o) ==
    /\ variant = "root" /\ h[o].pc = "log_written"
    /\ RAddLog("SUCCESS", "written", 0)
    /\ h' = [h EXCEPT ![o].pc = "count_processed"]
    /\ UNCHANGED <<variant, is_watching, stats, observer, sheet_url,
                   folder_path, lock, obs, req, nreqs, nevents, sheet>>

\* src/main.py:97-99
RLogWriteFailed(o) ==
    /\ variant = "root" /\ h[o].pc = "log_write_failed"
    /\ RAddLog("ERROR", "write_failed", 0)
    /\ h' = [h EXCEPT ![o].pc = "count_error", ![o].errlogs = @ + 1]
    /\ UNCHANGED <<variant, is_watching, stats, observer, sheet_url,
                   folder_path, lock, obs, req, nreqs, nevents, sheet>>

\* stats["files_processed"] += 1
IncProcessed(s) == [s EXCEPT !.files_processed = @ + 1]

\* stats["errors"] += 1
IncErrors(s) == [s EXCEPT !.errors = @ + 1]

\* src/main.py:160-161
RCountProcessed(o) ==
    /\ variant = "root" /\ h[o].pc = "count_processed" /\ lock = "free"
    /\ stats' = IncProcessed(stats)
    /\ h' = [h EXCEPT ![o] = EndRun(@, "processed")]
    /\ obs' = AfterRun(o)
    /\ UNCHANGED <<variant, is_watching, logs, log_id_counter, observer,
                   sheet_url, folder_path, lock, req, nreqs, nevents, sheet>>

\* src/main.py:163-165
RCountError(o) ==
    /\ variant = "root" /\ h[o].pc = "count_error" /\ lock = "free"
    /\ stats' = IncErrors(stats)
    /\ h' = [h EXCEPT ![o].pc = "log_pipeline_failed"]
    /\ UNCHANGED <<variant, is_watching, logs, log_id_counter, observer,
                   sheet_url, folder_path, lock, obs, req, nreqs, nevents, sheet>>

\* the failure leaves on_created and ends the observer's dispatch thread
RLogPipelineFailedEndsObserver(o) ==
    /\ variant = "root" /\ h[o].pc = "log_pipeline_failed"
    /\ RAddLog("ERROR", "pipeline_failed", h[o].file)
    /\ h' = [h EXCEPT ![o] = EndRun([@ EXCEPT !.errlogs = @ + 1,
                                               !.named = TRUE], "error")]
    /\ obs' = [obs EXCEPT ![o].status = "dead"]
    /\ UNCHANGED <<variant, is_watching, stats, observer, sheet_url,
                   folder_path, lock, req, nreqs, nevents, sheet>>

\* src/main.py:166
RLogPipelineFailed(o) ==
    /\ variant = "root" /\ h[o].pc = "log_pipeline_failed"
    /\ RAddLog("ERROR", "pipeline_failed", h[o].file)
    /\ h' = [h EXCEPT ![o] = EndRun([@ EXCEPT !.errlogs = @ + 1,
                                               !.named = TRUE], "error")]
    /\ obs' = AfterRun(o)
    /\ UNCHANGED <<variant, is_watching, stats, observer, sheet_url,
                   folder_path, lock, req, nreqs, nevents, sheet>>

(* ============================ backend ================================= *)
\* The handlers of src/backend/main.py are coroutines that never await: the
\* event loop runs one at a time, each to its end.  state_lock is a
\* threading.Lock (src/backend/main.py:40), which is not reentrant.
BCanIssue(r) == CanIssue(r) /\ \A q \in ReqIds : req[q].pc = "idle"

\* an entry of the backend log (src/backend/main.py:47-51)
BEntry(msg, file) == [id |-> log_id_counter + 1, msg |-> msg, file |-> file]

\* a call of add_log (src/backend/main.py:43-52): it takes state_lock itself
BAddLog(msg, file) ==
    /\ lock = "free"
    /\ log_id_counter' = log_id_counter + 1
    /\ logs' = BackendAddLog(logs, BEntry(msg, file))

(* ---------------------- backend: POST /start-watching ------------------ *)
\* src/backend/main.py:161-212: validation, then under state_lock the check
\* of is_watching, the clean-up of a stale observer and the new observer,
\* whose thread is started; the lock stays held
BStartWatching(r, f, u) ==
    /\ variant = "backend" /\ BCanIssue(r)
    /\ nreqs' = nreqs + 1
    /\ IF f = "" \/ ~IsDir(f) \/ ~Access(f)
       THEN /\ req' = [req EXCEPT ![r] = Respond(Begin(r, "start", f, u),
                         IF f = "" THEN "folder_required"
                         ELSE IF ~IsDir(f) THEN "dir_not_found"
                         ELSE "permission_denied")]
            /\ UNCHANGED <<observer, sheet_url, folder_path, lock, obs, h>>
       ELSE /\ lock = "free"
            /\ IF is_watching
               THEN /\ req' = [req EXCEPT ![r] =
                                 Respond(Begin(r, "start", f, u), "already_watching")]
                    /\ UNCHANGED <<observer, sheet_url, folder_path, lock, obs, h>>
               ELSE /\ obs' = Append(IF observer # 0 THEN StopObserver(observer)
                                     ELSE obs, NewObserver)
                    /\ h' = Append(h, HIdle)
                    /\ observer' = 0
                    /\ folder_path' = f
                    /\ sheet_url' = u
                    /\ lock' = "evloop"
                    /\ req' = [req EXCEPT ![r] =
                                 [Begin(r, "start", f, u) EXCEPT
                                     !.pc = "start_wait", !.target = Len(obs) + 1]]
    /\ UNCHANGED <<variant, is_watching, stats, logs, log_id_counter, nevents, sheet>>

\* src/backend/main.py:213-242: the wait for observer.is_alive(); then either
\* the session is recorded and add_log("Watcher started") is called with
\* state_lock still held, or the failure is answered and the lock released.
\* The last case is the return of that add_log call.
BStartResult(r) ==
    /\ variant = "backend"
    /\ CASE req[r].pc = "start_wait" ->
              \E ok \in BOOLEAN :
                 IF ok
                 THEN /\ obs' = [obs EXCEPT ![req[r].target].status = "alive"]
                      /\ observer' = req[r].target
                      /\ is_watching' = TRUE
                      /\ req' = [req EXCEPT ![r].pc = "add_log_started"]
                      /\ UNCHANGED <<lock, logs, log_id_counter>>
                 ELSE /\ obs' = [obs EXCEPT ![req[r].target].status = "failed"]
                      /\ lock' = "free"
                      /\ req' = [req EXCEPT ![r] = Respond(@, "start_failed")]
                      /\ UNCHANGED <<observer, is_watching, logs, log_id_counter>>
         [] req[r].pc = "add_log_started" ->
              /\ BAddLog("started", 0)
              /\ lock' = "free"
              /\ req' = [req EXCEPT ![r] = Respond(@, "started")]
              /\ UNCHANGED <<obs, observer, is_watching>>
         [] OTHER -> FALSE
    /\ UNCHANGED <<variant, stats, sheet_url, folder_path, h, nreqs, nevents, sheet>>

(* ---------------------- backend: POST /stop-watching ------------------- *)
\* src/backend/main.py:245-266, all under state_lock: the check; then stop()
\* and join(timeout=3.0) on the observer; then the session is cleared and
\* add_log("Watcher stopped") is called with the lock still held
BStopWatching(r) ==
    /\ variant = "backend"
    /\ CASE req[r].pc = "idle" ->
              /\ BCanIssue(r) /\ lock = "free"
              /\ nreqs' = nreqs + 1
              /\ IF ~is_watching
                 THEN /\ req' = [req EXCEPT ![r] =
                                   Respond(Begin(r, "stop", "", ""), "not_watching")]
                      /\ UNCHANGED <<lock, obs, observer, is_watching>>
                 ELSE /\ lock' = "evloop"
                      /\ IF observer # 0
                         THEN /\ obs' = StopObserver(observer)
                              /\ req' = [req EXCEPT ![r] =
                                    [Begin(r, "stop", "", "") EXCEPT
                                        !.pc = "joining", !.target = observer]]
                              /\ UNCHANGED <<observer, is_watching>>
                         ELSE /\ is_watching' = FALSE
                              /\ req' = [req EXCEPT ![r] =
                                    [Begin(r, "stop", "", "") EXCEPT
                                        !.pc = "add_log_stopped"]]
                              /\ UNCHANGED <<obs, observer>>
              /\ UNCHANGED <<logs, log_id_counter>>
         [] req[r].pc = "joining" ->
              /\ IF obs[req[r].target].status = "dead"
                 THEN /\ is_watching' = FALSE
                      /\ observer' = 0
                      /\ req' = [req EXCEPT ![r].pc = "add_log_stopped"]
                      /\ lock' = lock
                 ELSE IF req[r].waited < JoinTimeout
                 THEN /\ req' = [req EXCEPT ![r].waited = @ + 1]
                      /\ UNCHANGED <<is_watching, observer, lock>>
                 ELSE /\ req' = [req EXCEPT ![r] = Respond(@, "stop_failed")]
                      /\ lock' = "free"
                      /\ UNCHANGED <<is_watching, observer>>
              /\ UNCHANGED <<nreqs, obs, logs, log_id_counter>>
         [] req[r].pc = "add_log_stopped" ->
              /\ BAddLog("stopped", 0)
              /\ lock' = "free"
              /\ req' = [req EXCEPT ![r] = Respond(@, "stopped")]
              /\ UNCHANGED <<nreqs, obs, observer, is_watching>>
         [] OTHER -> FALSE
    /\ UNCHANGED <<variant, stats, sheet_url, folder_path, h, nevents, sheet>>

(* -------------------------- backend: GET /status ----------------------- *)
\* src/backend/main.py:271-276: under state_lock the flag is read and the
\* stats dict and the logs list are put in the answer by reference
BStatus(r) ==
    /\ variant = "backend" /\ BCanIssue(r) /\ lock = "free"
    /\ nreqs' = nreqs + 1
    /\ req' = [req EXCEPT ![r] =
          [Begin(r, "status", "", "") EXCEPT
              !.pc = "serialize",
              !.seen = [w |-> is_watching, s |-> stats]]]
    /\ UNCHANGED <<variant, is_watching, stats, logs, log_id_counter, observer,
                   sheet_url, folder_path, lock, obs, h, nevents, sheet>>

\* the answer is serialized after the handler has returned: the contents of
\* the dict and of the list are read then
BStatusSerialize(r) ==
    /\ variant = "backend" /\ req[r].pc = "serialize"
    /\ req' = [req EXCEPT ![r] = Respond(@, "status")]
    /\ UNCHANGED <<variant, is_watching, stats, logs, log_id_counter, observer,
                   sheet_url, folder_path, lock, obs, h, nreqs, nevents, sheet>>

(* ------------------- backend: PDFHandler and process_pdf --------------- *)
\* src/backend/main.py:143-153 and 121-141, the steps of the observer thread:
\* on_created / on_moved log the event and call process_pdf.  Neither tests
\* event.is_directory: for the event of a directory named *.pdf the run keeps
\* that fact in its text field, and os.path.isfile is then false.
BHandler(o) ==
    /\ variant = "backend"
    /\ CASE h[o].pc = "idle" ->
              /\ obs[o].status = "alive" /\ obs[o].queue # <<>>
              /\ LET e == Head(obs[o].queue) IN
                   /\ obs' = [obs EXCEPT ![o].queue = Tail(@),
                                 ![o].taken = IF EndsWithPdfLower(e.name)
                                              THEN @ + 1 ELSE @]
                   /\ h' = IF EndsWithPdfLower(e.name)
                           THEN [h EXCEPT ![o] = [HIdle EXCEPT
                                    !.pc = "add_log_detected", !.file = e.file,
                                    !.text = e.dir]]
                           ELSE h
              /\ UNCHANGED <<logs, log_id_counter, stats>>
         [] h[o].pc = "add_log_detected" ->
              /\ BAddLog("detected", h[o].file)
              /\ h' = [h EXCEPT ![o].pc = "process"]
              /\ UNCHANGED <<obs, stats>>
         [] h[o].pc = "process" ->
              \* lines 125-133: sleep, isfile, Loader.run, Parser.run
              /\ \E isfile \in (IF h[o].text THEN {FALSE} ELSE BOOLEAN),
                    d \in Docs, ocr_ok \in BOOLEAN :
                   IF ~isfile
                   THEN /\ h' = [h EXCEPT ![o] = EndRun(@, "skipped")]
                        /\ obs' = AfterRun(o)
                   ELSE /\ h' = [h EXCEPT ![o].pc =
                                   IF ~d.ok \/ (d.pages # <<"native">> /\ ~ocr_ok)
                                      \/ ParserRaises
                                   THEN "add_log_error" ELSE "add_log_processed",
                                 ![o].cause =
                                   IF ~d.ok \/ (d.pages # <<"native">> /\ ~ocr_ok)
                                   THEN "extract"
                                   ELSE IF ParserRaises THEN "parse" ELSE "none",
                                 ![o].stages =
                                   IF ~d.ok \/ (d.pages # <<"native">> /\ ~ocr_ok)
                                   THEN <<"Extractor">>
                                   ELSE <<"Extractor", "Parser">>]
                        /\ obs' = obs
              /\ UNCHANGED <<logs, log_id_counter, stats>>
         [] h[o].pc = "add_log_processed" ->
              /\ BAddLog("processed", h[o].file)
              /\ h' = [h EXCEPT ![o].pc = "count_processed"]
              /\ UNCHANGED <<obs, stats>>
         [] h[o].pc = "count_processed" ->
              /\ lock = "free"
              /\ stats' = IncProcessed(stats)
              /\ h' = [h EXCEPT ![o] = EndRun(@, "processed")]
              /\ obs' = AfterRun(o)
              /\ UNCHANGED <<logs, log_id_counter>>
         [] h[o].pc = "add_log_error" ->
              /\ BAddLog("error", h[o].file)
              /\ h' = [h EXCEPT ![o].pc = "count_error", ![o].errlogs = @ + 1,
                                ![o].named = TRUE]
              /\ UNCHANGED <<obs, stats>>
         [] h[o].pc = "count_error" ->
              /\ lock = "free"
              /\ stats' = IncErrors(stats)
              /\ h' = [h EXCEPT ![o] = EndRun(@, "error")]
              /\ obs' = AfterRun(o)
              /\ UNCHANGED <<logs, log_id_counter>>
         [] OTHER -> FALSE
    /\ UNCHANGED <<variant, is_watching, observer, sheet_url, folder_path,
                   lock, req, nreqs, nevents, sheet>>

(* ---------------------------- specification ---------------------------- *)
Init ==
    /\ variant \in {"root", "backend"}
    /\ is_watching = FALSE
    /\ stats = [files_processed |-> 0, errors |-> 0]
    /\ logs = <<>>
    /\ log_id_counter = 0
    /\ observer = 0
    /\ sheet_url = "None"
    /\ folder_path = "None"
    /\ lock = "free"
    /\ obs = <<>>
    /\ h = <<>>
    /\ req = [r \in ReqIds |-> ReqIdle]
    /\ nreqs = 0
    /\ nevents = 0
    /\ sheet = <<>>

RootRequest(r) ==
    \/ \E f \in {"missing", "good"}, u \in Urls : RStartCheck(r, f, u)
    \/ RStartSetUrl(r) \/ RStartLog(r) \/ RStartNewObserver(r)
    \/ RStartObserver(r) \/ RStartSetWatching(r) \/ RStartLogFailed(r)
    \/ RStopCheck(r) \/ RStopObserver(r) \/ RStopJoinCall(r)
    \/ RStopJoinTick(r) \/ RStopJoined(r) \/ RStopLog(r)
    \/ RStatusCopy(r) \/ RStatusReturn(r)

RootHandler(o) ==
    \/ RDetected(o) \/ RPage(o)
    \/ RExtractError(o) \/ RCheckText(o) \/ RParse(o) \/ RGetClient(o)
    \/ RLogOpening(o) \/ ROpenSheet(o) \/ RWrite(o)
    \/ RLogWritten(o) \/ RLogWriteFailed(o) \/ RCountProcessed(o)
    \/ RCountError(o) \/ RLogPipelineFailed(o)

BackendRequest(r) ==
    \/ \E f \in Folders, u \in Urls : BStartWatching(r, f, u)
    \/ BStartResult(r) \/ BStopWatching(r)
    \/ BStatus(r) \/ BStatusSerialize(r)

Next ==
    \/ \E r \in ReqIds : RootRequest(r)
    \/ \E o \in ObsIds : RootHandler(o)
    \/ \E r \in ReqIds : BackendRequest(r)
    \/ \E o \in ObsIds : BHandler(o)
    \/ \E a \in Arrivals : FileArrives(a)

Spec == Init /\ [][Next]_vars

(* -------------------- the backend program on its own ------------------- *)
InitBackend == Init /\ variant = "backend"

\* a step of the event-loop thread inside a handler it has begun
EvLoopStep(r) ==
    \/ BStartResult(r)
    \/ req[r].pc # "idle" /\ BStopWatching(r)
    \/ BStatusSerialize(r)

NextBackend ==
    \/ \E r \in ReqIds : BackendRequest(r)
    \/ \E o \in ObsIds : BHandler(o)
    \/ \E a \in Arrivals : FileArrives(a)

\* the event loop and the observer threads are operating-system threads:
\* each takes its next step if that step stays possible.  Nothing is assumed
\* of the clients or of the files that arrive.
SpecBackend ==
    /\ InitBackend /\ [][NextBackend]_vars
    /\ WF_vars(\E r \in ReqIds : EvLoopStep(r))
    /\ WF_vars(\E o \in ObsIds : BHandler(o))

(* ------------------- the log buffer under its operations --------------- *)
\* The two operations on the log buffer, add_log and the status read, called
\* in any order.  nreqs counts the calls; in the root program, where entries
\* carry no id, the n-th call logs message number n.
LogAppend ==
    /\ nreqs < MaxLogCalls /\ lock = "free"
    /\ nreqs' = nreqs + 1
    /\ IF variant = "root"
       THEN /\ logs' = RootAddLog(logs, [level |-> "ERROR", msg |-> "message",
                                          file |-> nreqs + 1])
            /\ log_id_counter' = log_id_counter
       ELSE BAddLog("message", 0)
    /\ UNCHANGED <<variant, is_watching, stats, observer, sheet_url,
                   folder_path, lock, obs, h, req, nevents, sheet>>

\* src/main.py:175-177 (copy, then clear) and src/backend/main.py:271-276
\* (the list itself is returned; nothing is removed)
LogStatusRead ==
    /\ lock = "free"
    /\ logs' = IF variant = "root" THEN <<>> ELSE logs
    /\ UNCHANGED <<variant, is_watching, stats, log_id_counter, observer,
                   sheet_url, folder_path, lock, obs, h, req, nreqs, nevents,
                   sheet>>

NextLog == LogAppend \/ LogStatusRead

SpecLog == Init /\ [][NextLog]_vars

(* ------------------- the sink under a sequence of appends -------------- *)
HeaderRow(names) == [i \in 1..Len(names) |-> NameCell(names[i])]

\* destinations as the program may find them: empty, or with a header row
\* that a person or an earlier run has written
InitSheets ==
    { <<>>,
      <<HeaderRow(RecordCols)>>,
      <<HeaderRow(<<"Total Amount", "Vendor">>)>>,
      <<HeaderRow(<<"Notes", "Processed Time", "Invoice Date", "Vendor",
                    "Total Amount">>)>>,
      <<HeaderRow(<<"Vendor", "", "Total Amount", "Notes">>)>>,
      <<HeaderRow(<<"Notes">>)>> }

\* a watch session of the root program with a destination, nothing processed
InitSink ==
    /\ variant = "root"
    /\ is_watching = TRUE
    /\ stats = [files_processed |-> 0, errors |-> 0]
    /\ logs = <<>>
    /\ log_id_counter = 0
    /\ observer = 1
    /\ sheet_url = "sheetA"
    /\ folder_path = "None"
    /\ lock = "free"
    /\ obs = <<[NewObserver EXCEPT !.status = "alive"]>>
    /\ h = <<HIdle>>
    /\ req = [r \in ReqIds |-> ReqIdle]
    /\ nreqs = 0
    /\ nevents = 0
    /\ sheet \in InitSheets

\* a run that has parsed its file reaches append_to_sheet with a client
SinkBegin(o) ==
    /\ h[o].pc = "idle" /\ nevents < MaxRows
    /\ nevents' = nevents + 1
    /\ h' = [h EXCEPT ![o] = [HIdle EXCEPT !.pc = "open_sheet",
                                          !.file = nevents + 1]]
    /\ UNCHANGED <<variant, is_watching, stats, logs, log_id_counter, observer,
                   sheet_url, folder_path, lock, obs, req, nreqs, sheet>>

\* append_to_sheet returns or raises
SinkEnd(o) ==
    /\ h[o].pc \in {"log_written", "log_write_failed"}
    /\ h' = [h EXCEPT ![o] = EndRun(@, IF @.wrote THEN "processed" ELSE "error")]
    /\ UNCHANGED <<variant, is_watching, stats, logs, log_id_counter, observer,
                   sheet_url, folder_path, lock, obs, req, nreqs, nevents, sheet>>

NextSink ==
    \E o \in ObsIds : SinkBegin(o) \/ ROpenSheet(o) \/ RWrite(o) \/ SinkEnd(o)

SpecSink == InitSink /\ [][NextSink]_vars

(* ------------------------------ the parsers ---------------------------- *)
\* A text is a sequence of characters (strings of length one).
UpperLetters == <<"A", "B", "C", "D", "E", "F", "G", "H", "I", "J", "K", "L", "M",
                  "N", "O", "P", "Q", "R", "S", "T", "U", "V", "W", "X", "Y", "Z">>
LowerLetters == <<"a", "b", "c", "d", "e", "f", "g", "h", "i", "j", "k", "l", "m",
                  "n", "o", "p", "q", "r", "s", "t", "u", "v", "w", "x", "y", "z">>

\* re.IGNORECASE compares the characters with their case folded
Lower(c) ==
    IF \E i \in 1..Len(UpperLetters) : UpperLetters[i] = c
    THEN LowerLetters[CHOOSE i \in 1..Len(UpperLetters) : UpperLetters[i] = c]
    ELSE c

Digits == <<"0", "1", "2", "3", "4", "5", "6", "7", "8", "9">>

\* \d
IsDigit(c) == \E i \in 1..Len(Digits) : Digits[i] = c

\* the value of a digit
DigitValue(c) == (CHOOSE i \in 1..Len(Digits) : Digits[i] = c) - 1

\* \s, and what str.strip() removes
IsSpace(c) == c \in {" ", "\n", "\t", "\r"}

\* str.strip()
RECURSIVE StripText(_)
StripText(t) ==
    IF t = <<>> THEN t
    ELSE IF IsSpace(Head(t)) THEN StripText(Tail(t))
    ELSE IF IsSpace(t[Len(t)]) THEN StripText(SubSeq(t, 1, Len(t) - 1))
    ELSE t

\* the literal kw (given in lower case) matches t at position i, any case
MatchesAt(t, i, kw) ==
    /\ i + Len(kw) - 1 <= Len(t)
    /\ \A k \in 1..Len(kw) : Lower(t[i + k - 1]) = kw[k]

\* the least element of a non-empty set of positions
Least(S) == CHOOSE i \in S : \A j \in S : i <= j

\* src/main.py:104  ^(.*?)\n with re.MULTILINE: from the start of a line,
\* as few characters other than a line feed as possible, then a line feed.
\* The value is group 1 of the leftmost match, <<"no match">> without one.
NoMatch == <<"no match">>

VendorSearch(t) ==
    LET starts == {i \in 1..Len(t) :
                     /\ i = 1 \/ t[i - 1] = "\n"
                     /\ \E j \in i..Len(t) : t[j] = "\n"}
    IN IF starts = {} THEN NoMatch
       ELSE LET i == Least(starts)
                j == Least({k \in i..Len(t) : t[k] = "\n"})
            IN SubSeq(t, i, j - 1)

\* [\s:] of the amount pattern
IsSep(c) == IsSpace(c) \/ c = ":"

\* [\d,] of the amount pattern
IsNumChar(c) == IsDigit(c) \/ c = ","

\* where the greedy run of separators that starts at p ends
SepRunEnd(t, p) ==
    Least({e \in p..(Len(t) + 1) : e = Len(t) + 1 \/ ~IsSep(t[e])})

\* where the greedy run of [\d,] that starts at p ends
NumRunEnd(t, p) ==
    Least({e \in p..(Len(t) + 1) : e = Len(t) + 1 \/ ~IsNumChar(t[e])})

\* where the greedy run of \s that starts at p ends
SpaceRunEnd(t, p) ==
    Least({e \in p..(Len(t) + 1) : e = Len(t) + 1 \/ ~IsSpace(t[e])})

AmountKeywords ==
    { <<"t", "o", "t", "a", "l">>,
      <<"a", "m", "o", "u", "n", "t", " ", "d", "u", "e">>,
      <<"b", "a", "l", "a", "n", "c", "e">> }

\* src/main.py:105  (?:Total|Amount Due|Balance)[\s:]*\$?([\d,]+\.\d{2}) matched
\* at position i with keyword kw: group 1, or NoMatch.  Every part is greedy,
\* and giving back a character never helps: the character given back is not
\* one the next part accepts.
AmountAt(t, i, kw) ==
    IF ~MatchesAt(t, i, kw) THEN NoMatch
    ELSE LET q == SepRunEnd(t, i + Len(kw))
             g == IF q <= Len(t) /\ t[q] = "$" THEN q + 1 ELSE q
             e == NumRunEnd(t, g)
         IN IF /\ e > g /\ e + 2 <= Len(t) /\ t[e] = "."
               /\ IsDigit(t[e + 1]) /\ IsDigit(t[e + 2])
            THEN SubSeq(t, g, e + 2)
            ELSE NoMatch

\* amount_pattern.search(text): group 1 of the leftmost match
AmountSearch(t) ==
    LET hits == {i \in 1..Len(t) :
                   \E kw \in AmountKeywords : AmountAt(t, i, kw) # NoMatch}
    IN IF hits = {} THEN NoMatch
       ELSE LET i == Least(hits)
            IN AmountAt(t, i, CHOOSE kw \in AmountKeywords :
                                  AmountAt(t, i, kw) # NoMatch)

\* the digits of d read as a number
RECURSIVE NatOf(_)
NatOf(d) ==
    IF d = <<>> THEN 0 ELSE 10 * NatOf(SubSeq(d, 1, Len(d) - 1)) + DigitValue(d[Len(d)])

\* src/main.py:115  float(amount.group(1).replace(",", "")), in hundredths
AmountValue(g) ==
    LET d == SelectSeq(g, IsDigit) IN NatOf(d)

\* \d{1,2}/ at position p: the position after the "/", or 0
DayOrMonthEnd(t, p) ==
    IF p + 2 <= Len(t) /\ IsDigit(t[p]) /\ IsDigit(t[p + 1]) /\ t[p + 2] = "/"
    THEN p + 3
    ELSE IF p + 1 <= Len(t) /\ IsDigit(t[p]) /\ t[p + 1] = "/" THEN p + 2
    ELSE 0

\* src/main.py:106  Date:?\s*(\d{1,2}/\d{1,2}/\d{2,4}) matched at position i:
\* group 1, or NoMatch
DateAt(t, i) ==
    IF ~MatchesAt(t, i, <<"d", "a", "t", "e">>) THEN NoMatch
    ELSE LET c == i + 4
             q == SpaceRunEnd(t, IF c <= Len(t) /\ t[c] = ":" THEN c + 1 ELSE c)
             m == DayOrMonthEnd(t, q)
             y == IF m = 0 THEN 0 ELSE DayOrMonthEnd(t, m)
             n == IF y = 0 THEN 0
                  ELSE Cardinality({k \in 1..4 :
                          \A l \in 1..k : y + l - 1 <= Len(t) /\ IsDigit(t[y + l - 1])})
         IN IF n >= 2 THEN SubSeq(t, q, y + n - 1) ELSE NoMatch

\* date_pattern.search(text)
DateSearch(t) ==
    LET hits == {i \in 1..Len(t) : DateAt(t, i) # NoMatch}
    IN IF hits = {} THEN NoMatch ELSE DateAt(t, Least(hits))

\* the sentinel "N/A"
NA == <<"N", "/", "A">>

\* src/main.py:102-117, parse_invoice_text (the time stamp left out)
ParseInvoiceText(t) ==
    LET vendor == VendorSearch(t)
        amount == AmountSearch(t)
        date == DateSearch(t)
    IN [status |-> "returned",
        vendor |-> IF vendor # NoMatch THEN StripText(vendor) ELSE NA,
        date |-> IF date # NoMatch THEN StripText(date) ELSE NA,
        amount |-> IF amount # NoMatch THEN AmountValue(amount) ELSE 0]

\* src/backend/main.py:89-109, Parser.run: re.compile of line 94 raises
\* (ParserRaises), the except clause logs and raises again
ParserRun(t) ==
    IF ParserRaises THEN [status |-> "raised"]
    ELSE [status |-> "returned"]

(* ----------------- text extraction over drawn documents ---------------- *)
\* the documents drawn: every sequence of one to MaxPages pages
DocsMulti == UNION {[1..n -> PageKinds] : n \in 1..MaxPages}

\* src/backend/main.py:69-83, Loader.run on an open document: the loop over
\* the pages, where the OCR call for page number fail (if any) raises
RECURSIVE LoaderLoop(_, _, _)
LoaderLoop(acc, pages, fail) ==
    IF pages = <<>> THEN [acc EXCEPT !.pc = "loaded"]
    ELSE LET page == Head(pages)
             n == Len(acc.seen) + 1
             visited == [acc EXCEPT !.seen = Append(@, page), !.pages = Tail(pages)]
         IN
         IF ~NeedsOcr(page)
         THEN LoaderLoop([visited EXCEPT !.out = Append(@,
                             [page |-> n, text |-> Strip(NativeText(page))])],
                         Tail(pages), fail)
         ELSE IF n = fail
         THEN [visited EXCEPT !.ocr = Append(@, n), !.pc = "load_failed"]
         ELSE LoaderLoop([visited EXCEPT !.ocr = Append(@, n),
                             !.out = Append(@, [page |-> n, text |-> OcrText(page)])],
                         Tail(pages), fail)

\* a watch session in which nothing has arrived yet
InitExtract ==
    /\ variant \in {"root", "backend"}
    /\ is_watching = TRUE
    /\ stats = [files_processed |-> 0, errors |-> 0]
    /\ logs = <<>>
    /\ log_id_counter = 0
    /\ observer = 1
    /\ sheet_url = "sheetA"
    /\ folder_path = "None"
    /\ lock = "free"
    /\ obs = <<[NewObserver EXCEPT !.status = "alive"]>>
    /\ h = <<HIdle>>
    /\ req = [r \in ReqIds |-> ReqIdle]
    /\ nreqs = 0
    /\ nevents = 0
    /\ sheet = <<>>

\* the run of one file reaches the page loop with its document open
ExtractBegin(o) ==
    /\ h[o].pc = "idle" /\ nevents = 0
    /\ nevents' = nevents + 1
    /\ \E pages \in DocsMulti :
         h' = [h EXCEPT ![o] =
                 IF variant = "root"
                 THEN RPages([HIdle EXCEPT !.file = 1, !.doc = pages], pages, FALSE)
                 ELSE [HIdle EXCEPT !.file = 1, !.doc = pages, !.pages = pages,
                                    !.pc = "load"]]
    /\ UNCHANGED <<variant, is_watching, stats, logs, log_id_counter, observer,
                   sheet_url, folder_path, lock, obs, req, nreqs, sheet>>

\* the backend's Loader.run on the open document
BLoad(o) ==
    /\ variant = "backend" /\ h[o].pc = "load"
    /\ \E fail \in 0..Len(h[o].pages) :
         h' = [h EXCEPT ![o] = LoaderLoop(@, @.pages, fail)]
    /\ UNCHANGED <<variant, is_watching, stats, logs, log_id_counter, observer,
                   sheet_url, folder_path, lock, obs, req, nreqs, nevents, sheet>>

NextExtract ==
    \/ \E o \in ObsIds : ExtractBegin(o)
    \/ \E o \in ObsIds : RPage(o)
    \/ \E o \in ObsIds : BLoad(o)

SpecExtract == InitExtract /\ [][NextExtract]_vars

(* ---------------------- the parsers over drawn texts -------------------- *)
\* pieces of document text: a vendor line, labelled amounts and dates that
\* the patterns accept and that they refuse, and white space
Fragments ==
    { <<"A", "c", "m", "e", "\n">>,
      <<"T", "o", "t", "a", "l", ":", " ", "$", "1", ",", "2", "3", "4", ".", "5", "6">>,
      <<"t", "o", "t", "a", "l", ":", " ", "n", "/", "a">>,
      <<"B", "a", "l", "a", "n", "c", "e", " ", "7", ".", "5">>,
      <<"D", "a", "t", "e", ":", " ", "0", "1", "/", "1", "5", "/", "2", "0", "2", "4">>,
      <<"D", "a", "t", "e", ":", " ", "s", "o", "o", "n">>,
      <<"\n">>,
      <<" ">> }

RECURSIVE Flatten(_)
Flatten(ss) == IF ss = <<>> THEN <<>> ELSE Head(ss) \o Flatten(Tail(ss))

\* the document text of Scenario A
ScenarioA ==
    <<"V", "e", "n", "d", "o", "r", ":", " ", "A", "c", "m", "e", " ", "C", "o", "r", "p", "\n",
      "D", "a", "t", "e", ":", " ", "0", "1", "/", "1", "5", "/", "2", "0", "2", "4", "\n",
      "T", "o", "t", "a", "l", ":", " ", "$", "1", ",", "2", "3", "4", ".", "5", "6">>

\* the texts drawn: up to MaxFrags fragments in a row (the empty text
\* included), and the text of Scenario A
Texts ==
    {Flatten(ss) : ss \in UNION {[1..n -> Fragments] : n \in 0..MaxFrags}}
        \cup {ScenarioA}

\* a run that has extracted the text t and is about to parse it
InitParse ==
    /\ variant \in {"root", "backend"}
    /\ is_watching = TRUE
    /\ stats = [files_processed |-> 0, errors |-> 0]
    /\ logs = <<>>
    /\ log_id_counter = 0
    /\ observer = 1
    /\ sheet_url = "sheetA"
    /\ folder_path = "None"
    /\ lock = "free"
    /\ obs = <<[NewObserver EXCEPT !.status = "alive"]>>
    /\ \E t \in Texts : h = <<[HIdle EXCEPT !.file = 1, !.pc = "parse_text", !.input = t]>>
    /\ req = [r \in ReqIds |-> ReqIdle]
    /\ nreqs = 0
    /\ nevents = 0
    /\ sheet = <<>>

\* src/main.py:155, invoice_data = parse_invoice_text(text)
RParseText(o) ==
    /\ variant = "root" /\ h[o].pc = "parse_text"
    /\ h' = [h EXCEPT ![o].rec = ParseInvoiceText(h[o].input), ![o].pc = "parsed"]
    /\ UNCHANGED <<variant, is_watching, stats, logs, log_id_counter, observer,
                   sheet_url, folder_path, lock, obs, req, nreqs, nevents, sheet>>

\* src/backend/main.py:119, data = step.run(data) for the Parser step
BParseText(o) ==
    /\ variant = "backend" /\ h[o].pc = "parse_text"
    /\ h' = [h EXCEPT ![o].rec = ParserRun(h[o].input), ![o].pc = "parsed"]
    /\ UNCHANGED <<variant, is_watching, stats, logs, log_id_counter, observer,
                   sheet_url, folder_path, lock, obs, req, nreqs, nevents, sheet>>

NextParse ==
    \/ \E o \in ObsIds : RParseText(o)
    \/ \E o \in ObsIds : BParseText(o)

SpecParse == InitParse /\ [][NextParse]_vars

(* ------------------------- one watch session --------------------------- *)
\* The state right after a start that found the observer alive, with no
\* further request made.  In the root program the request has been answered.
\* In the backend the event-loop thread is inside start_watching at the call
\* add_log("Watcher started") of line 231, with state_lock held since line 179.
InitSession ==
    /\ variant \in {"root", "backend"}
    /\ is_watching = TRUE
    /\ stats = [files_processed |-> 0, errors |-> 0]
    /\ logs = <<>>
    /\ log_id_counter = 0
    /\ observer = 1
    /\ sheet_url = "sheetA"
    /\ folder_path = IF variant = "root" THEN "None" ELSE "good"
    /\ lock = IF variant = "root" THEN "free" ELSE "evloop"
    /\ obs = <<[NewObserver EXCEPT !.status = "alive"]>>
    /\ h = <<HIdle>>
    /\ req = [r \in ReqIds |->
                IF variant = "backend" /\ r = 1
                THEN [Begin(r, "start", "good", "sheetA") EXCEPT
                         !.pc = "add_log_started", !.target = 1]
                ELSE ReqIdle]
    /\ nreqs = 1
    /\ nevents = 0
    /\ sheet = <<>>

NextSession ==
    \/ \E a \in Arrivals : FileArrives(a)
    \/ \E o \in ObsIds : RootHandler(o)
    \/ \E o \in ObsIds : BHandler(o)

\* the observer's dispatch thread is an operating-system thread: it takes its
\* next step if that step stays possible
SpecSession ==
    /\ InitSession /\ [][NextSession]_vars
    /\ WF_vars(\E o \in ObsIds : RootHandler(o))
    /\ WF_vars(\E o \in ObsIds : BHandler(o))

(* ----------------------- stopping a watch session ---------------------- *)
\* The root program with a session active and no request in progress: after
\* one start, or after two starts that both passed the test of line 182 (the
\* second observer is the one state.observer names).  One more request is made.
InitStop ==
    /\ variant = "root"
    /\ is_watching = TRUE
    /\ stats = [files_processed |-> 0, errors |-> 0]
    /\ logs = <<>>
    /\ log_id_counter = 0
    /\ sheet_url = "sheetA"
    /\ folder_path = "None"
    /\ lock = "free"
    /\ \E n \in 1..NumReq :
         /\ obs = [o \in 1..n |-> [NewObserver EXCEPT !.status = "alive"]]
         /\ h = [o \in 1..n |-> HIdle]
         /\ observer = n
    /\ req = [r \in ReqIds |-> ReqIdle]
    /\ nreqs = MaxReqs - 1
    /\ nevents = 0
    /\ sheet = <<>>

\* the stop requests of the clients, the runs and the arrivals
NextStop ==
    \/ \E r \in ReqIds :
          \/ RStopCheck(r) \/ RStopObserver(r) \/ RStopJoinCall(r)
          \/ RStopJoinTick(r) \/ RStopJoined(r) \/ RStopLog(r)
    \/ \E o \in ObsIds : RootHandler(o)
    \/ \E a \in Arrivals : FileArrives(a)

SpecStop == InitStop /\ [][NextStop]_vars

(* ------------------ the drain of the log buffer on read ---------------- *)
\* get_status of src/main.py step by step, against add_log calls of other
\* threads.  Each client thread makes one status request; req[r].snap is
\* current_logs, which the answer carries.  nreqs counts the add_log calls,
\* and call number n logs message number n.

\* a status thread enters "with state.lock" without waiting for the lock
DrainEnterUnlocked(r) ==
    /\ variant = "root" /\ req[r].pc = "idle" /\ req[r].op = "none"
    /\ lock' = lock
    /\ req' = [req EXCEPT ![r] = [Begin(r, "status", "", "") EXCEPT
                                     !.pc = "drain_copy"]]
    /\ UNCHANGED <<variant, is_watching, stats, logs, log_id_counter, observer,
                   sheet_url, folder_path, obs, h, nreqs, nevents, sheet>>

\* src/main.py:175, with state.lock: the thread waits until the lock is free
DrainEnter(r) ==
    /\ variant = "root" /\ req[r].pc = "idle" /\ req[r].op = "none"
    /\ lock = "free"
    /\ lock' = "status"
    /\ req' = [req EXCEPT ![r] = [Begin(r, "status", "", "") EXCEPT
                                     !.pc = "drain_copy"]]
    /\ UNCHANGED <<variant, is_watching, stats, logs, log_id_counter, observer,
                   sheet_url, folder_path, obs, h, nreqs, nevents, sheet>>

\* src/main.py:176, current_logs = state.logs[:]
DrainCopy(r) ==
    /\ variant = "root" /\ req[r].pc = "drain_copy"
    /\ req' = [req EXCEPT ![r].snap = logs, ![r].pc = "drain_clear"]
    /\ UNCHANGED <<variant, is_watching, stats, logs, log_id_counter, observer,
                   sheet_url, folder_path, lock, obs, h, nreqs, nevents, sheet>>

\* src/main.py:177, state.logs.clear(), and the end of the with block
DrainClear(r) ==
    /\ variant = "root" /\ req[r].pc = "drain_clear"
    /\ logs' = <<>>
    /\ lock' = "free"
    /\ req' = [req EXCEPT ![r].pc = "drain_return"]
    /\ UNCHANGED <<variant, is_watching, stats, log_id_counter, observer,
                   sheet_url, folder_path, obs, h, nreqs, nevents, sheet>>

\* src/main.py:178, the answer with "logs": current_logs
DrainReturn(r) ==
    /\ variant = "root" /\ req[r].pc = "drain_return"
    /\ req' = [req EXCEPT ![r].pc = "idle", ![r].resp = "status"]
    /\ UNCHANGED <<variant, is_watching, stats, logs, log_id_counter, observer,
                   sheet_url, folder_path, lock, obs, h, nreqs, nevents, sheet>>

\* src/main.py:49-56, a call of add_log by any other thread
DrainAppend ==
    /\ variant = "root" /\ nreqs < MaxLogCalls
    /\ RAddLog("ERROR", "message", nreqs + 1)
    /\ nreqs' = nreqs + 1
    /\ UNCHANGED <<variant, is_watching, stats, observer, sheet_url,
                   folder_path, lock, obs, h, req, nevents, sheet>>

\* the root program after LogCap - 2 calls of add_log and no status request
InitDrain ==
    /\ variant = "root"
    /\ is_watching = FALSE
    /\ stats = [files_processed |-> 0, errors |-> 0]
    /\ logs = [i \in 1..(LogCap - 2) |-> Entry("ERROR", "message", i)]
    /\ log_id_counter = 0
    /\ observer = 0
    /\ sheet_url = "None"
    /\ folder_path = "None"
    /\ lock = "free"
    /\ obs = <<>>
    /\ h = <<>>
    /\ req = [r \in ReqIds |-> ReqIdle]
    /\ nreqs = LogCap - 2
    /\ nevents = 0
    /\ sheet = <<>>

NextDrain ==
    \/ DrainAppend
    \/ \E r \in ReqIds : DrainEnter(r)
    \/ \E r \in ReqIds : DrainCopy(r)
    \/ \E r \in ReqIds : DrainClear(r)
    \/ \E r \in ReqIds : DrainReturn(r)

SpecDrain == InitDrain /\ [][NextDrain]_vars

(* ================================ claims =============================== *)
RECURSIVE TakenUpTo(_)
TakenUpTo(n) == IF n = 0 THEN 0 ELSE obs[n].taken + TakenUpTo(n - 1)

\* the pipeline runs begun so far
Dispatched == TakenUpTo(Len(obs))

Counted == stats.files_processed + stats.errors

\* the step is the first step of a request of thread r
Issues(r) ==
    /\ nreqs' = nreqs + 1
    /\ \A q \in ReqIds \ {r} : req'[q] = req[q]

\* C1: at most one watch session is active at any time: whatever the
\* interleaving of start-watching requests, at most one observer is live.
C1_OneLiveObserver == Cardinality(Alive) <= 1

\* C2: every PDF arrival handed to the pipeline ends in exactly one counted
\* outcome: from some point on files_processed + errors equals the number of
\* runs begun, and stays so.
C2_EveryRunCounted == <>[](Counted = Dispatched)

\* C3: a run that ends because the sink write failed has recorded exactly
\* one ERROR log entry (and is counted as one error, not as processed).
C3_OneErrorEntry ==
    \A o \in ObsIds :
        h[o].outcome # "none" /\ h[o].cause = "sink_write"
            => h[o].outcome = "error" /\ h[o].errlogs = 1

\* C4: files_processed is incremented only for runs whose record was
\* actually written to the sink; a run without credentials or without a
\* destination is counted as an error.
C4_ProcessedOnlyIfWritten ==
    \A o \in ObsIds : h[o].outcome = "processed" => h[o].wrote

\* C5: stop-watching on an active session waits a bounded time only (the
\* stop timeout) for the observer to be torn down.
C5_BoundedWait ==
    \A r \in ReqIds : req[r].pc = "joining" => req[r].waited <= JoinTimeout

\* C6: start-watching with a folder path that is not an existing directory
\* (given while no session is active; in the backend, a path that is not
\* empty) is answered "directory not found" and creates no session:
\* is_watching, the observers and the stored destination are not changed.
C6_StartOnMissingDir ==
    [][\A r \in ReqIds :
         (/\ Issues(r) /\ req'[r].op = "start" /\ ~IsDir(req'[r].folder)
          /\ IF variant = "root" THEN ~is_watching ELSE req'[r].folder # "")
         => /\ req'[r].resp = "dir_not_found" /\ req'[r].pc = "idle"
            /\ ~is_watching' = ~is_watching
            /\ obs' = obs /\ observer' = observer /\ h' = h
            /\ sheet_url' = sheet_url /\ folder_path' = folder_path]_vars

C6_Witness ==
    \E r \in ReqIds :
        /\ req[r].op = "start" /\ req[r].resp = "dir_not_found"
        /\ ~is_watching /\ obs = <<>> /\ sheet_url = "None"

\* C7: stop-watching when no session is active is answered "not watching"
\* and leaves is_watching, both counters and the log buffer as they were.
C7_StopWhenIdle ==
    [][\A r \in ReqIds :
         (Issues(r) /\ req'[r].op = "stop" /\ ~is_watching)
         => /\ req'[r].resp = "not_watching" /\ req'[r].pc = "idle"
            /\ is_watching' = is_watching /\ stats' = stats /\ logs' = logs
            /\ log_id_counter' = log_id_counter
            /\ obs' = obs /\ observer' = observer]_vars

\* a stop refused after a session has come and gone, the log not empty
C7_Witness ==
    \E r \in ReqIds :
        /\ req[r].op = "stop" /\ req[r].resp = "not_watching"
        /\ ~is_watching /\ logs # <<>>

\* C8: a status answer is one consistent snapshot: the watch flag and the
\* counters it carries are those of the state its log entries were copied in.
C8_ConsistentSnapshot ==
    [][\A r \in ReqIds :
         (req[r].op = "status" /\ req[r].pc # "idle" /\ req'[r].pc = "idle")
         => is_watching = req[r].seen.w /\ stats = req[r].seen.s]_vars

\* the tag that tells the add_log calls apart
LogTag(e) == IF variant = "root" THEN e.file ELSE e.id

\* C9: the log buffer is bounded: after any sequence of appends and status
\* reads it holds at most LogCap entries, which are the most recent ones in
\* append order.
C9_LogBounded ==
    /\ Len(logs) <= LogCap
    /\ \A i \in 1..Len(logs) : LogTag(logs[i]) = nreqs - Len(logs) + i

HasHeader(sh) == Len(sh) > 0 /\ RowValues1(sh) # <<>>

\* the record of file f laid out under the first row of sh
AlignedTo(sh, f) ==
    [i \in 1..Len(sh[1]) |->
        IF sh[1][i].v \in RecordColSet THEN [v |-> sh[1][i].v, f |-> f] ELSE NaN]

EmptyAfterTrim(page) == page \in {"space", "scan", "blank"}

\* the numbers of the pages of P, from page i on, that satisfy EmptyAfterTrim
RECURSIVE PagesToOcr(_, _)
PagesToOcr(P, i) ==
    IF i > Len(P) THEN <<>>
    ELSE (IF EmptyAfterTrim(P[i]) THEN <<i>> ELSE <<>>) \o PagesToOcr(P, i + 1)

\* what page i of P contributes to the text: its native text, or what OCR
\* returns for it (the root program trims that and drops it when empty)
Contribution(P, i) ==
    IF ~EmptyAfterTrim(P[i]) THEN <<[page |-> i, text |-> "T"]>>
    ELSE IF variant = "backend"
         THEN <<[page |-> i, text |-> IF P[i] = "scan" THEN " t " ELSE " "]>>
    ELSE IF P[i] = "scan" THEN <<[page |-> i, text |-> "t"]>> ELSE <<>>

RECURSIVE TextsOf(_, _)
TextsOf(P, i) ==
    IF i > Len(P) THEN <<>> ELSE Contribution(P, i) \o TextsOf(P, i + 1)

\* C11: at every point of an extraction the pages have been visited in page
\* order and OCR has been called, once and in page order, for exactly the
\* visited pages whose native text is empty after trimming; when the
\* extraction returns, every page has been visited and the texts collected
\* are the pages' texts in page order.
C11_OcrIffNoNativeText ==
    \A o \in ObsIds :
        LET r == h[o] IN
        /\ Len(r.seen) <= Len(r.doc)
        /\ r.seen = SubSeq(r.doc, 1, Len(r.seen))
        /\ r.ocr = PagesToOcr(r.seen, 1)
        /\ r.pc \in {"check_text", "loaded"} =>
              /\ r.seen = r.doc
              /\ r.out = TextsOf(r.doc, 1)

\* a three-page document returned from: a scanned page, a page with native
\* text, a page with a text layer of white space only
C11_Witness ==
    \E o \in ObsIds :
        /\ h[o].pc \in {"check_text", "loaded"}
        /\ h[o].doc = <<"scan", "native", "space">>
        /\ h[o].ocr = <<1, 3>>

\* C12: the parser is total.  Whatever the text, the parse returns a record
\* and does not raise; a field whose pattern finds nothing holds its sentinel
\* (amount 0.0, vendor and date "N/A"), and a field whose pattern finds
\* something is extracted whatever the other patterns found.
C12_ParserTotal ==
    \A o \in ObsIds :
        h[o].pc = "parsed" =>
            /\ h[o].rec.status = "returned"
            /\ AmountSearch(h[o].input) = NoMatch => h[o].rec.amount = 0
            /\ VendorSearch(h[o].input) = NoMatch => h[o].rec.vendor = NA
            /\ DateSearch(h[o].input) = NoMatch => h[o].rec.date = NA
            /\ DateSearch(h[o].input) # NoMatch => h[o].rec.date = DateSearch(h[o].input)
            /\ AmountSearch(h[o].input) # NoMatch =>
                   h[o].rec.amount = AmountValue(AmountSearch(h[o].input))

\* C13: the parse of the Scenario A text is the record with vendor
\* "Acme Corp", date "01/15/2024" and amount 1234.56 (123456 hundredths).
C13_ScenarioA ==
    \A o \in ObsIds :
        (h[o].pc = "parsed" /\ h[o].input = ScenarioA) =>
            h[o].rec = [status |-> "returned",
                        vendor |-> <<"A", "c", "m", "e", " ", "C", "o", "r", "p">>,
                        date |-> <<"0", "1", "/", "1", "5", "/", "2", "0", "2", "4">>,
                        amount |-> 123456]

\* the stages in the order the controller is to run them
StageOrder == <<"Extractor", "Parser", "Appender">>

\* the stage a failure cause belongs to
StageOf(cause) ==
    CASE cause \in {"extract", "empty_text"} -> "Extractor"
      [] cause = "parse" -> "Parser"
      [] cause \in {"no_client", "sink_open", "sink_write"} -> "Appender"

\* C14: within one run the stages are attempted in the order Extractor, Parser,
\* Appender; once a stage has failed no later stage is attempted, and when the
\* run is over an ERROR entry naming the file has been logged, the run is
\* counted in errors, and nothing was written to the sink.
C14_StagesInOrder ==
    \A o \in ObsIds :
        /\ \E n \in 0..Len(StageOrder) : h[o].stages = SubSeq(StageOrder, 1, n)
        /\ h[o].cause # "none" =>
              /\ h[o].stages # <<>>
              /\ h[o].stages[Len(h[o].stages)] = StageOf(h[o].cause)
        /\ (h[o].cause # "none" /\ h[o].outcome # "none") =>
              /\ h[o].outcome = "error"
              /\ ~h[o].wrote
              /\ h[o].named

\* the events the handler of the running program starts a run for
IsPdfEvent(e) ==
    IF variant = "root" THEN IsRootPdfEvent(e) ELSE EndsWithPdfLower(e.name)

\* the PDF arrival numbered k waits in the queue of observer o
PdfQueued(o, k) ==
    \E i \in DOMAIN obs[o].queue :
        obs[o].queue[i].file = k /\ IsPdfEvent(obs[o].queue[i])

\* C15: a failure in a run does not reach the subscription.  The step in
\* which a run fails or ends in failure leaves is_watching, the observer and
\* its queue as they were, and a PDF arrival that waits behind a failed run
\* is dispatched and reaches its own terminal outcome.
C15_FailureIsolated ==
    /\ [][\A o \in ObsIds :
            (h'[o] # h[o] /\ h'[o].cause # "none") =>
                /\ is_watching' = is_watching
                /\ observer' = observer
                /\ obs'[o] = obs[o]]_vars
    /\ \A k \in 1..MaxEvents :
          [](h[1].outcome = "error" /\ PdfQueued(1, k)
                => <>(h[1].file = k /\ h[1].outcome # "none"))

\* the first file's run has failed and the second file's run has ended with
\* its record written
C15_Witness ==
    /\ stats = [files_processed |-> 1, errors |-> 1]
    /\ h[1].file = 2 /\ h[1].outcome = "processed" /\ h[1].wrote
    /\ is_watching /\ obs[1].status = "alive"

\* C16: stopping the watch cancels no run, and after a successful stop no run
\* starts before the next successful start.  A run in progress leaves the
\* handler only with a terminal outcome, and an observer takes an event for a
\* new run only while a session is recorded (is_watching, which is FALSE from
\* a successful stop to the next successful start) or while a start or stop
\* request is still being served.
C16_StopKeepsRuns ==
    [][\A o \in ObsIds :
          /\ (h[o].pc # "idle" /\ h'[o].pc = "idle") =>
                 /\ h'[o].outcome \in {"processed", "error", "skipped"}
                 /\ h'[o].file = h[o].file
          /\ obs'[o].taken > obs[o].taken =>
                 \/ is_watching
                 \/ \E r \in ReqIds : req[r].pc # "idle"]_vars

\* observer o takes an event and begins a run
BeginsRun(o) == NextSession /\ obs'[o].taken > obs[o].taken

\* C17: runs do not wait for each other.  While the run of one file is in
\* progress and the arrival of another PDF has been queued by the observer,
\* the run of that file can begin.
C17_RunsOverlap ==
    \A o \in ObsIds : \A k \in 1..MaxEvents :
        (obs[o].status = "alive" /\ h[o].pc # "idle" /\ PdfQueued(o, k))
            => ENABLED BeginsRun(o)

\* C18: header creation is serialized.  Every write of a record to the
\* destination, also one made while another run is appending, leaves the rows
\* already there as they were and adds the record's row at the end, after the
\* header row it creates if the destination was empty; the header row occurs
\* once.
C18_HeaderOnce ==
    [][\A o \in ObsIds :
          (h[o].pc = "write" /\ h'[o].wrote) =>
              /\ Len(sheet') = IF sheet = <<>> THEN 2 ELSE Len(sheet) + 1
              /\ \A i \in DOMAIN sheet : sheet'[i] = sheet[i]
              /\ sheet'[Len(sheet')] = AlignedTo(sheet', h[o].file)
              /\ \A i \in 2..Len(sheet') : sheet'[i] # sheet'[1]]_vars

\* C19: when the observer's dispatch thread takes the notification of a file
\* (created, or renamed into place) from its queue, a run for that file begins
\* if and only if the name ends in ".pdf", whatever the case of the letters.
C19_PdfStartsRun ==
    [][\A o \in ObsIds :
          (/\ obs[o].queue # <<>>
           /\ obs'[o].queue = Tail(obs[o].queue)
           /\ obs'[o].status = obs[o].status
           /\ ~Head(obs[o].queue).dir) =>
              LET e == Head(obs[o].queue) IN
              (h'[o].pc # "idle" /\ h'[o].file = e.file /\ obs'[o].taken = obs[o].taken + 1)
                  <=> EndsWithPdfLower(e.name)]_vars

\* C20: no thread requests the state lock while it holds it.  The handlers of
\* the backend all run on the event-loop thread: while that thread holds
\* state_lock, it is not at a call of add_log, which takes state_lock itself.
C20_NoSelfRequest ==
    \A r \in ReqIds :
        req[r].pc \in {"add_log_started", "add_log_stopped"} => lock # "evloop"

\* how often message number k occurs in the sequence of entries es
Occurs(es, k) == Cardinality({i \in DOMAIN es : es[i].file = k})

\* message number k + LogCap has been logged and no status read copied the
\* buffer between the two calls: the append of line 54 found the buffer full
\* and line 56 dropped message k
Evicted(k) ==
    /\ k + LogCap <= nreqs
    /\ \A r \in ReqIds :
          \/ req[r].snap = <<>>
          \/ req[r].snap[Len(req[r].snap)].file \notin k..(k + LogCap - 1)

\* C21: the status read drains the log buffer atomically.  Each message logged
\* so far occurs in at most one answer, once, and not in the buffer as well
\* (unless the clear that follows the copy is still to come); a message that
\* is in no answer and not in the buffer was evicted by the capacity bound.
C21_DrainAtomic ==
    \A k \in 1..nreqs :
        LET answers == {r \in ReqIds : Occurs(req[r].snap, k) > 0}
            clearing == \E r \in ReqIds : req[r].pc = "drain_clear"
        IN
        /\ Cardinality(answers) <= 1
        /\ \A r \in answers : Occurs(req[r].snap, k) = 1
        /\ Occurs(logs, k) <= 1
        /\ (answers # {} /\ Occurs(logs, k) > 0) => clearing
        /\ (answers = {} /\ Occurs(logs, k) = 0) => Evicted(k)

\* every status request has been answered with entries, a message was
\* evicted before it could be read, and the buffer holds entries again
C21_Witness ==
    /\ \A r \in ReqIds : req[r].resp = "status" /\ req[r].snap # <<>>
    /\ \E k \in 1..nreqs : Evicted(k)
    /\ logs # <<>>

====
